---- MODULE Spec2Model ----
(***************************************************************************)
(* Model of the rclone-backup add-on's control plane                       *)
(*   src/rclone_backup/scheduler/api.go   (StartAPIServer and its three    *)
(*                                         handlers)                       *)
(* and of its release tooling                                              *)
(*   src/scripts/release.sh.                                               *)
(*                                                                         *)
(* Texts that the code parses (request paths, version numbers) are         *)
(* sequences of one-character strings, so that TrimPrefix, TrimSuffix and  *)
(* Atoi are computed the way the code computes them.                       *)
(***************************************************************************)
EXTENDS Integers, Sequences, FiniteSets, TLC

(* ----------------------------- bounds ---------------------------------- *)
\* longest job list drawn for config.Jobs
MaxJobs == 2
\* number of events (HTTP requests and cron firings) in one behaviour of Spec
MaxReq == 2
\* number of events (HTTP requests and cron firings) in one behaviour of SpecHTTP
MaxSeqReq == 1
\* version components of config.yaml range over 0..MaxVer, and 9 and 10
MaxVer == 1

VARIABLES
    jobs,      \* config.Jobs: the job registry, in registry order
    alive,     \* the process (and with it the HTTP server) is running
    running,   \* Executor RunState: running[i] for job index i (0-based)
    reqs,      \* the requests received so far, each with its response
    gor,       \* the goroutines started by "go runnables[index]()" and by cron
    crons      \* number of cron firings so far

apiVars == <<jobs, alive, running, reqs, gor, crons>>

\* release.sh, its inputs and what it acts on
VARIABLES
    args,        \* "$@": the arguments, each a text
    rpc,         \* the position of the script
    exit,        \* its exit status, -1 while it runs
    opts,        \* NO_PUSH, NO_CHANGELOG, NO_RELEASE and BUMP
    cfgVersion,  \* the text after "version: " in rclone_backup/config.yaml
    current,     \* $current
    new,         \* $new
    changelog,   \* the lines of rclone_backup/CHANGELOG.md
    repo,        \* the local repository: the files as checked out, staged
                 \* files, commits, tags
    remote,      \* the remote: the pushed branch and tags, the releases
    ghInstalled, \* "command -v gh" succeeds
    steps        \* the steps the script has run, each with its outcome

relVars ==
    <<args, rpc, exit, opts, cfgVersion, current, new, changelog, repo, remote,
      ghInstalled, steps>>

vars ==
    <<jobs, alive, running, reqs, gor, crons, args, rpc, exit, opts, cfgVersion,
      current, new, changelog, repo, remote, ghInstalled, steps>>

(* ------------------------- texts as sequences -------------------------- *)
HasPrefix(s, p) ==
    /\ Len(p) <= Len(s)
    /\ SubSeq(s, 1, Len(p)) = p

HasSuffix(s, p) ==
    /\ Len(p) <= Len(s)
    /\ SubSeq(s, Len(s) - Len(p) + 1, Len(s)) = p

\* strings.TrimPrefix: s without the leading p, or s itself
TrimPrefix(s, p) ==
    IF HasPrefix(s, p) THEN SubSeq(s, Len(p) + 1, Len(s)) ELSE s

\* strings.TrimSuffix: s without the trailing p, or s itself
TrimSuffix(s, p) ==
    IF HasSuffix(s, p) THEN SubSeq(s, 1, Len(s) - Len(p)) ELSE s

DigitChars == <<"0", "1", "2", "3", "4", "5", "6", "7", "8", "9">>

IsDigit(c) == \E d \in 1..10 : DigitChars[d] = c

DigitVal(c) == (CHOOSE d \in 1..10 : DigitChars[d] = c) - 1

RECURSIVE ParseUint(_)
ParseUint(s) ==
    IF s = <<>> THEN 0
    ELSE ParseUint(SubSeq(s, 1, Len(s) - 1)) * 10 + DigitVal(s[Len(s)])

\* strconv.Atoi: an optional sign, then one or more decimal digits
Atoi(s) ==
    LET signed == s # <<>> /\ s[1] \in {"+", "-"}
        body   == IF signed THEN Tail(s) ELSE s
    IN  IF body = <<>> \/ \E i \in 1..Len(body) : ~IsDigit(body[i])
        THEN [ok |-> FALSE, val |-> 0]
        ELSE [ok |-> TRUE,
              val |-> IF s[1] = "-" THEN 0 - ParseUint(body) ELSE ParseUint(body)]

RECURSIVE Numeral(_)
\* the decimal numeral of a natural number (what a client writes for an index)
Numeral(n) ==
    IF n < 10 THEN <<DigitChars[n + 1]>>
    ELSE Numeral(n \div 10) \o <<DigitChars[(n % 10) + 1]>>

(* ----------------------------- requests -------------------------------- *)
Methods == {"GET", "POST", "PUT"}

PathRoot    == <<"/">>
PathJobs    == <<"/", "j", "o", "b", "s">>
PathApiJobs == <<"/", "a", "p", "i", "/", "j", "o", "b", "s">>
TriggerPrefix == PathApiJobs \o <<"/">>
RunSuffix   == <<"/", "r", "u", "n">>
PathOther   == <<"/", "x">>

\* what follows "/api/jobs/" in the trigger paths a client sends
TriggerTails ==
    {Numeral(i) : i \in 0..MaxJobs}
    \cup {Numeral(i) \o RunSuffix : i \in 0..(MaxJobs - 1)}
    \cup {<<"5">>, <<"-", "1">>, <<"+", "1">>, <<"x">>, <<"1", "/", "x">>, <<>>}

Paths ==
    {PathRoot, PathJobs, PathApiJobs, PathOther}
    \cup {TriggerPrefix \o t : t \in TriggerTails}

(* ----------------------------- responses ------------------------------- *)
Resp(status, ctype, text, list) ==
    [status |-> status, ctype |-> ctype, text |-> text, list |-> list]

NoResp == Resp(0, "", "", <<>>)

\* the placeholder of line 36
OnDemand == "(on demand / startup)"

\* JobSummaryOf numbering the jobs from 1
JobSummaryOneBased(i, job) ==
    [Index    |-> i + 1,
     Name     |-> job.Name,
     Schedule |-> IF job.Schedule = "" THEN OnDemand ELSE job.Schedule,
     Command  |-> IF job.Run # "" THEN "" ELSE job.Command,
     Run      |-> IF job.Run # "" THEN job.Run ELSE "",
     Type     |-> IF job.Run # "" THEN "run" ELSE "rclone"]

\* lines 34-45: the JobSummary struct built for job number i (0-based)
JobSummaryOf(i, job) ==
    [Index    |-> i,
     Name     |-> job.Name,
     Schedule |-> IF job.Schedule = "" THEN OnDemand ELSE job.Schedule,
     Command  |-> IF job.Run # "" THEN "" ELSE job.Command,
     Run      |-> IF job.Run # "" THEN job.Run ELSE "",
     Type     |-> IF job.Run # "" THEN "run" ELSE "rclone"]

\* EncodeSummary without "omitempty": every field is written
EncodeSummaryAllFields(s) ==
    [index |-> s.Index, name |-> s.Name, schedule |-> s.Schedule,
     type |-> s.Type, command |-> s.Command, run |-> s.Run]

\* lines 13-20 under encoding/json: the object written for a JobSummary;
\* "omitempty" leaves out command and run when they are empty
EncodeSummary(s) ==
    LET keys == {"index", "name", "schedule", "type"}
                \cup (IF s.Command # "" THEN {"command"} ELSE {})
                \cup (IF s.Run # "" THEN {"run"} ELSE {})
    IN  [k \in keys |->
            CASE k = "index"    -> s.Index
              [] k = "name"     -> s.Name
              [] k = "schedule" -> s.Schedule
              [] k = "type"     -> s.Type
              [] k = "command"  -> s.Command
              [] k = "run"      -> s.Run]

\* Listing that leaves out the last job
ListingButLast(js) ==
    [i \in 1..(Len(js) - 1) |-> EncodeSummary(JobSummaryOf(i - 1, js[i]))]

\* lines 32-48: the array GET /api/jobs writes
Listing(js) ==
    [i \in 1..Len(js) |-> EncodeSummary(JobSummaryOf(i - 1, js[i]))]

\* lines 26-49: the "/api/jobs" handler
ListHandler(method, js) ==
    IF method # "GET"
    THEN Resp(405, "", "", <<>>)
    ELSE Resp(200, "application/json", "", Listing(js))

\* ValidIndex with the upper comparison off by one
ValidIndexInclusive(a, n) == a.ok /\ a.val >= 0 /\ a.val <= n

\* line 60: the index check of the trigger handler
ValidIndex(a, n) == a.ok /\ a.val >= 0 /\ a.val < n

\* ParseIndex without the TrimSuffix of line 58
ParseIndexNoRun(path) == Atoi(TrimPrefix(path, TriggerPrefix))

\* lines 57-59: the index the trigger handler parses from the path
ParseIndex(path) == Atoi(TrimSuffix(TrimPrefix(path, TriggerPrefix), RunSuffix))

\* TriggerDecision with the index checked before the method
TriggerDecisionIndexFirst(method, path, n) ==
    IF ~ValidIndex(ParseIndex(path), n)
    THEN [spawn |-> FALSE, index |-> 0,
          resp |-> Resp(400, "text/plain; charset=utf-8", "invalid job index", <<>>)]
    ELSE IF method # "POST"
    THEN [spawn |-> FALSE, index |-> 0, resp |-> Resp(405, "", "", <<>>)]
    ELSE [spawn |-> TRUE, index |-> ParseIndex(path).val, resp |-> NoResp]

\* lines 51-63: the "/api/jobs/" handler up to its go statement: the response
\* it writes when it returns early, or the index it starts
TriggerDecision(method, path, n) ==
    IF method # "POST"
    THEN [spawn |-> FALSE, index |-> 0, resp |-> Resp(405, "", "", <<>>)]
    ELSE IF ~ValidIndex(ParseIndex(path), n)
    THEN [spawn |-> FALSE, index |-> 0,
          resp |-> Resp(400, "text/plain; charset=utf-8", "invalid job index", <<>>)]
    ELSE [spawn |-> TRUE, index |-> ParseIndex(path).val, resp |-> NoResp]

\* lines 65-67: the response of an accepted trigger
AcceptedResp == Resp(202, "application/json", "{\"status\":\"accepted\"}", <<>>)

\* lines 70-77: the "/" handler
RootHandler(path) ==
    IF path # PathRoot /\ path # PathJobs
    THEN Resp(404, "text/plain; charset=utf-8", "404 page not found", <<>>)
    ELSE Resp(200, "text/html; charset=utf-8", "jobsPageHTML", <<>>)

\* Route with "/api/jobs/" registered as an exact pattern, not a subtree
RouteExact(path) ==
    IF path = PathApiJobs THEN "list"
    ELSE IF path = TriggerPrefix THEN "trigger"
    ELSE "root"

\* net/http ServeMux with the patterns of lines 26, 51 and 70: an exact
\* pattern, a subtree pattern, and the catch-all
Route(path) ==
    IF path = PathApiJobs THEN "list"
    ELSE IF HasPrefix(path, TriggerPrefix) THEN "trigger"
    ELSE "root"

(* ------------------------------- jobs ---------------------------------- *)
CronNightly == "0 2 * * *"

\* the job specs the configuration may hold; Command is the rclone argument
\* line of a sync job, Run the command line of a shell job
RawJobSpecs ==
    {[Name     |-> IF c = "" THEN (IF s = "" THEN "Cleanup" ELSE "Prune")
                   ELSE (IF s = "" THEN "" ELSE "Nightly"),
      Schedule |-> s, Command |-> c, Run |-> r] :
        s \in {CronNightly, ""},
        c \in {"sync /backup remote:backup", ""},
        r \in {"find /backup -mtime +30 -delete", ""}}

\* Job Registry load: a job has exactly one action, sync or shell
ValidJob(job) == (job.Command # "") # (job.Run # "")

JobNightly ==
    [Name |-> "Nightly", Schedule |-> CronNightly,
     Command |-> "sync /backup remote:backup", Run |-> ""]

JobCleanup ==
    [Name |-> "Cleanup", Schedule |-> "",
     Command |-> "", Run |-> "find /backup -mtime +30 -delete"]

\* the registries of Spec: Nightly, Cleanup, Nightly, ... up to MaxJobs jobs
Catalogue(k) == [i \in 1..k |-> IF i % 2 = 1 THEN JobNightly ELSE JobCleanup]

SeqsUpTo(S, n) == UNION {[1..k -> S] : k \in 0..n}

\* the registries a configuration can load
Registries ==
    {js \in SeqsUpTo(RawJobSpecs, MaxJobs) : \A i \in 1..Len(js) : ValidJob(js[i])}

\* len(runnables): the registry is built once and handed to the Control API,
\* with one runnable, the Executor entry point, per job
NumRunnables == Len(jobs)

JobIndexes == 0..(NumRunnables - 1)

(* ------------------------------ the server ----------------------------- *)
Request(method, path, pc, resp) ==
    [method |-> method, path |-> path, pc |-> pc, resp |-> resp]

Goroutine(index, by) == [index |-> index, by |-> by, st |-> "spawned"]

\* release.sh is not running
ReleaseIdle ==
    /\ args = <<>>
    /\ rpc = "idle"
    /\ exit = -1
    /\ opts = [noPush |-> FALSE, noChangelog |-> FALSE, noRelease |-> FALSE,
               bump |-> <<>>, usage |-> FALSE]
    /\ cfgVersion = <<>>
    /\ current = <<>>
    /\ new = <<>>
    /\ changelog = <<>>
    /\ repo = [base |-> [config |-> <<>>, changelog |-> <<>>],
               staged |-> {}, commits |-> <<>>, tags |-> {}]
    /\ remote = [branch |-> <<>>, tags |-> {}, releases |-> {}]
    /\ ghInstalled = FALSE
    /\ steps = <<>>

\* StartAPIServer has returned: the mux is built and the server listens
InitServer(registries) ==
    /\ jobs \in registries
    /\ alive = TRUE
    /\ running = [i \in 0..(Len(jobs) - 1) |-> FALSE]
    /\ reqs = <<>>
    /\ gor = <<>>
    /\ crons = 0
    /\ ReleaseIdle

Init == InitServer({Catalogue(k) : k \in 0..MaxJobs})

InitHTTP == InitServer(Registries)

\* the server takes requests while the process lives
Accepting == alive

\* lines 26-49: a request routed to the "/api/jobs" handler
ListJobs(method, path) ==
    /\ Accepting
    /\ Route(path) = "list"
    /\ reqs' = Append(reqs, Request(method, path, "done", ListHandler(method, jobs)))
    /\ UNCHANGED <<jobs, alive, running, gor, crons, relVars>>

\* lines 70-77: a request routed to the "/" handler
Root(method, path) ==
    /\ Accepting
    /\ Route(path) = "root"
    /\ reqs' = Append(reqs, Request(method, path, "done", RootHandler(path)))
    /\ UNCHANGED <<jobs, alive, running, gor, crons, relVars>>

\* Spawn that always starts the first job
SpawnFirst(d, r) == Goroutine(0, r)

\* line 64: the goroutine "go runnables[index]()" starts
Spawn(d, r) == Goroutine(d.index, r)

\* lines 51-64: a request routed to the "/api/jobs/" handler, up to the early
\* return or the go statement
Trigger(method, path) ==
    /\ Accepting
    /\ Route(path) = "trigger"
    /\ LET d == TriggerDecision(method, path, NumRunnables)
           r == Len(reqs) + 1
       IN  IF d.spawn
           THEN /\ reqs' = Append(reqs, Request(method, path, "spawned", NoResp))
                /\ gor' = Append(gor, Spawn(d, r))
           ELSE /\ reqs' = Append(reqs, Request(method, path, "done", d.resp))
                /\ gor' = gor
    /\ UNCHANGED <<jobs, alive, running, crons, relVars>>

\* WriteReady for a handler that calls runnables[index]() without "go": it
\* goes on only when the runnable has returned
WriteReadyAfterRun(r) ==
    /\ reqs[r].pc = "spawned"
    /\ \E k \in 1..Len(gor) : gor[k].by = r /\ gor[k].st \in {"busy", "ok", "failed"}

\* lines 64-65: the handler goes on after the go statement without waiting
\* for the goroutine
WriteReady(r) == reqs[r].pc = "spawned"

\* lines 65-67: the trigger handler writes its response
WriteAccepted(r) ==
    /\ alive
    /\ WriteReady(r)
    /\ reqs' = [reqs EXCEPT ![r].pc = "done", ![r].resp = AcceptedResp]
    /\ UNCHANGED <<jobs, alive, running, gor, crons, relVars>>

(* ------------------------- executor and scheduler ---------------------- *)
\* Accepts without the check of the RunState
AcceptsAlways(flag) == TRUE

\* Executor.trigger: a run starts only when none of this job is in flight
Accepts(flag) == ~flag

\* Executor.trigger(index), the body of runnables[index]: the atomic
\* check-and-set of the job's RunState; Accepted starts the run, Busy drops it
ExecutorTrigger(k) ==
    /\ alive
    /\ gor[k].st = "spawned"
    /\ LET i == gor[k].index
       IN  IF Accepts(running[i])
           THEN /\ running' = [running EXCEPT ![i] = TRUE]
                /\ gor' = [gor EXCEPT ![k].st = "running"]
           ELSE /\ running' = running
                /\ gor' = [gor EXCEPT ![k].st = "busy"]
    /\ UNCHANGED <<jobs, alive, reqs, crons, relVars>>

\* the child process of a run ends: exit code zero ("ok"), or a non-zero exit
\* or a failure to start ("failed"); either way the RunState is cleared
RunExit(k, outcome) ==
    /\ alive
    /\ gor[k].st = "running"
    /\ gor' = [gor EXCEPT ![k].st = outcome]
    /\ running' = [running EXCEPT ![gor[k].index] = FALSE]
    /\ UNCHANGED <<jobs, alive, reqs, crons, relVars>>

\* line 64: the runnable panics in its goroutine; the go statement installs
\* no recover, and an unrecovered panic in any goroutine ends the Go process
RunPanic(k) ==
    /\ alive
    /\ gor[k].st \in {"spawned", "running"}
    /\ gor' = [gor EXCEPT ![k].st = "panicked"]
    /\ alive' = FALSE
    /\ UNCHANGED <<jobs, running, reqs, crons, relVars>>

\* Scheduler: a fire instant of a scheduled job calls the same runnable
CronFire(i) ==
    /\ alive
    /\ jobs[i + 1].Schedule # ""
    /\ gor' = Append(gor, Goroutine(i, 0))
    /\ crons' = crons + 1
    /\ UNCHANGED <<jobs, alive, running, reqs, relVars>>

\* one step of the process, its requests drawn from Q, at most limit of them
NextWith(Q, limit) ==
    \/ \E q \in Q : Len(reqs) + crons < limit /\ ListJobs(q[1], q[2])
    \/ \E q \in Q : Len(reqs) + crons < limit /\ Root(q[1], q[2])
    \/ \E q \in Q : Len(reqs) + crons < limit /\ Trigger(q[1], q[2])
    \/ \E r \in 1..Len(reqs) : WriteAccepted(r)
    \/ \E k \in 1..Len(gor) : ExecutorTrigger(k)
    \/ \E k \in 1..Len(gor), o \in {"ok", "failed"} : RunExit(k, o)
    \/ \E k \in 1..Len(gor) : RunPanic(k)
    \/ \E i \in JobIndexes : Len(reqs) + crons < limit /\ CronFire(i)

\* the requests of Spec: both trigger forms for every index, and one request
\* for each other kind of answer
ConcurrentRequests ==
    {<<"POST", TriggerPrefix \o Numeral(i)>> : i \in 0..(MaxJobs - 1)}
    \cup {<<"POST", TriggerPrefix \o Numeral(i) \o RunSuffix>> : i \in 0..(MaxJobs - 1)}
    \cup {<<"POST", TriggerPrefix \o t>> : t \in {<<"5">>, <<"-", "1">>, <<"x">>}}
    \cup {<<"GET", TriggerPrefix \o <<"0">> >>, <<"GET", PathApiJobs>>, <<"GET", PathRoot>>}

Next == NextWith(ConcurrentRequests, MaxReq)

\* the server under concurrent requests, cron firings and job runs
Spec == Init /\ [][Next]_vars

NextHTTP == NextWith(Methods \X Paths, MaxSeqReq)

\* the server answering every method on every path, for every registry
SpecHTTP == InitHTTP /\ [][NextHTTP]_vars

(* ============================ release.sh =============================== *)
Dot == <<".">>

\* the text major.minor.patch of three numbers
VersionText(a, b, c) == Numeral(a) \o Dot \o Numeral(b) \o Dot \o Numeral(c)

\* the numbers a version component of config.yaml is drawn from
VerNums == (0..MaxVer) \cup {9, 10}

Versions == {VersionText(a, b, c) : a, b, c \in VerNums}

TokPatch == <<"p", "a", "t", "c", "h">>
TokMinor == <<"m", "i", "n", "o", "r">>
TokMajor == <<"m", "a", "j", "o", "r">>
TokNoPush == <<"-", "-", "n", "o", "-", "p", "u", "s", "h">>
TokNoChangelog ==
    <<"-", "-", "n", "o", "-", "c", "h", "a", "n", "g", "e", "l", "o", "g">>
TokNoRelease == <<"-", "-", "n", "o", "-", "r", "e", "l", "e", "a", "s", "e">>
TokForce == <<"-", "-", "f", "o", "r", "c", "e">>
TokTwoPart == <<"1", ".", "2">>

\* the explicit VERSION arguments tried
ExplicitVersions == {VersionText(2, 0, 0), VersionText(1, 10, 0)}

\* line 32: the glob [0-9]*.[0-9]*.[0-9]* of the case statement
GlobVersion(t) ==
    /\ t # <<>>
    /\ IsDigit(t[1])
    /\ \E p1 \in 2..Len(t), p2 \in 2..Len(t) :
        /\ p1 + 1 < p2 /\ p2 < Len(t)
        /\ t[p1] = "." /\ IsDigit(t[p1 + 1])
        /\ t[p2] = "." /\ IsDigit(t[p2 + 1])

NoOpts ==
    [noPush |-> FALSE, noChangelog |-> FALSE, noRelease |-> FALSE,
     bump |-> <<>>, usage |-> FALSE]

\* lines 27-34: one round of the for loop over "$@"
ParseArg(o, arg) ==
    IF o.usage THEN o
    ELSE IF arg = TokNoPush THEN [o EXCEPT !.noPush = TRUE]
    ELSE IF arg = TokNoChangelog THEN [o EXCEPT !.noChangelog = TRUE]
    ELSE IF arg = TokNoRelease THEN [o EXCEPT !.noRelease = TRUE]
    ELSE IF arg \in {TokPatch, TokMinor, TokMajor} THEN [o EXCEPT !.bump = arg]
    ELSE IF GlobVersion(arg) THEN [o EXCEPT !.bump = arg]
    ELSE [o EXCEPT !.usage = TRUE]

RECURSIVE ParseArgsFrom(_, _)
ParseArgsFrom(o, as) ==
    IF as = <<>> THEN o ELSE ParseArgsFrom(ParseArg(o, Head(as)), Tail(as))

\* ParseArgs without the check of line 37
ParseArgsNoBumpCheck(as) == ParseArgsFrom(NoOpts, as)

\* lines 21-37: the options after the loop; usage when an argument is not
\* recognised or no bump was given
ParseArgs(as) ==
    LET o == ParseArgsFrom(NoOpts, as)
    IN  IF o.bump = <<>> THEN [o EXCEPT !.usage = TRUE] ELSE o

\* the position of the first "." of a text, 0 when it has none
FirstDot(t) ==
    IF \E i \in 1..Len(t) : t[i] = "."
    THEN CHOOSE i \in 1..Len(t) : t[i] = "." /\ \A j \in 1..(i - 1) : t[j] # "."
    ELSE 0

\* line 47: IFS=. read -r major minor patch; the last name takes the rest
SplitVersion(t) ==
    LET d1   == FirstDot(t)
        rest == IF d1 = 0 THEN <<>> ELSE SubSeq(t, d1 + 1, Len(t))
        d2   == FirstDot(rest)
    IN  [major |-> IF d1 = 0 THEN t ELSE SubSeq(t, 1, d1 - 1),
         minor |-> IF d2 = 0 THEN rest ELSE SubSeq(rest, 1, d2 - 1),
         patch |-> IF d2 = 0 THEN <<>> ELSE SubSeq(rest, d2 + 1, Len(rest))]

\* $((x + 1)) for a component that is a decimal numeral: the text of its
\* value plus one (an unset or empty component counts as 0)
PlusOne(t) == Numeral(ParseUint(t) + 1)

\* BumpVersion whose minor and major bumps keep the lower components
BumpVersionNoReset(bump, cur) ==
    LET v == SplitVersion(cur)
    IN  IF bump = TokPatch THEN v.major \o Dot \o v.minor \o Dot \o PlusOne(v.patch)
        ELSE IF bump = TokMinor THEN v.major \o Dot \o PlusOne(v.minor) \o Dot \o v.patch
        ELSE IF bump = TokMajor THEN PlusOne(v.major) \o Dot \o v.minor \o Dot \o v.patch
        ELSE bump

\* lines 49-54: the new version
BumpVersion(bump, cur) ==
    LET v == SplitVersion(cur)
    IN  IF bump = TokPatch THEN v.major \o Dot \o v.minor \o Dot \o PlusOne(v.patch)
        ELSE IF bump = TokMinor THEN v.major \o Dot \o PlusOne(v.minor) \o Dot \o <<"0">>
        ELSE IF bump = TokMajor THEN PlusOne(v.major) \o Dot \o <<"0">> \o Dot \o <<"0">>
        ELSE bump

(* --------------------------- CHANGELOG.md ------------------------------ *)
\* a line of CHANGELOG.md: a "## <a>" header, the compare link from v<a> to
\* v<b>, an empty line, or other text
Line(kind, a, b) == [kind |-> kind, a |-> a, b |-> b]

Header(v) == Line("header", v, <<>>)

TextLine == Line("text", <<>>, <<>>)

BlankLine == Line("blank", <<>>, <<>>)

DigitsOnly(t) == t # <<>> /\ \A j \in 1..Len(t) : IsDigit(t[j])

\* lines 71 and 77: the awk pattern /^## [0-9]+\.[0-9]+\.[0-9]+$/
VersionHeader(l) ==
    /\ l.kind = "header"
    /\ LET v == SplitVersion(l.a)
       IN  DigitsOnly(v.major) /\ DigitsOnly(v.minor) /\ DigitsOnly(v.patch)

\* the number of the first version header, 0 when there is none
FirstVersionHeader(cl) ==
    IF \E i \in 1..Len(cl) : VersionHeader(cl[i])
    THEN CHOOSE i \in 1..Len(cl) :
            VersionHeader(cl[i]) /\ \A j \in 1..(i - 1) : ~VersionHeader(cl[j])
    ELSE 0

\* lines 71-72: the previous version of the compare link
PrevVersion(cl, cur) ==
    IF FirstVersionHeader(cl) = 0 THEN cur ELSE cl[FirstVersionHeader(cl)].a

\* lines 76-85: the awk program: the new section is printed before the first
\* version header, and every line is printed
InsertSection(cl, v, prev) ==
    LET h == FirstVersionHeader(cl)
    IN  IF h = 0 THEN cl
        ELSE SubSeq(cl, 1, h - 1)
             \o <<Header(v), BlankLine, Line("link", prev, v), BlankLine>>
             \o SubSeq(cl, h, Len(cl))

\* the changelogs the script is run on
Changelogs ==
    {<<TextLine, Header(VersionText(1, 0, 0)), TextLine>>,
     <<Header(<<"U", "n", "r", "e", "l", "e", "a", "s", "e", "d">>), TextLine,
       Header(VersionText(1, 1, 0)), TextLine, Header(VersionText(1, 0, 0)), TextLine>>,
     <<TextLine>>}

(* ----------------------------- the script ------------------------------ *)
\* the argument lists the script is called with: a bump or none, any of the
\* three flags, and possibly an argument that is no option
ArgLists ==
    {b \o f1 \o f2 \o f3 \o x :
        b  \in {<<>>} \cup {<<t>> : t \in {TokPatch, TokMinor, TokMajor} \cup ExplicitVersions},
        f1 \in {<<>>, <<TokNoPush>>},
        f2 \in {<<>>, <<TokNoChangelog>>},
        f3 \in {<<>>, <<TokNoRelease>>},
        x  \in {<<>>, <<TokForce>>, <<TokTwoPart>>}}

ServerIdle ==
    /\ jobs = <<>>
    /\ alive = FALSE
    /\ running = <<>>
    /\ reqs = <<>>
    /\ gor = <<>>
    /\ crons = 0

\* release.sh is started in a clean checkout
InitRelease ==
    /\ ServerIdle
    /\ args \in ArgLists
    /\ rpc = "parse"
    /\ exit = -1
    /\ opts = NoOpts
    /\ cfgVersion \in Versions
    /\ current = <<>>
    /\ new = <<>>
    /\ changelog \in Changelogs
    /\ repo = [base |-> [config |-> cfgVersion, changelog |-> changelog],
               staged |-> {}, commits |-> <<>>, tags |-> {}]
    /\ remote = [branch |-> <<>>, tags |-> {}, releases |-> {}]
    /\ ghInstalled = FALSE
    /\ steps = <<>>

\* one step of the script and whether it succeeded
Step(name, ok) == [step |-> name, ok |-> ok]

\* the script ends with the given status
Exit(status) == rpc' = "exited" /\ exit' = status

\* lines 21-37: the arguments are parsed; usage exits with status 1
RParse ==
    /\ rpc = "parse"
    /\ opts' = ParseArgs(args)
    /\ IF opts'.usage THEN Exit(1) ELSE rpc' = "read" /\ exit' = exit
    /\ UNCHANGED <<apiVars, args, cfgVersion, current, new, changelog, repo, remote,
                   ghInstalled, steps>>

\* lines 43-59: the current version is read and the new one computed
RCompute ==
    /\ rpc = "read"
    /\ current' = cfgVersion
    /\ IF cfgVersion = <<>>
       THEN Exit(1) /\ new' = new
       ELSE rpc' = "config" /\ exit' = exit /\ new' = BumpVersion(opts.bump, cfgVersion)
    /\ UNCHANGED <<apiVars, args, opts, cfgVersion, changelog, repo, remote, ghInstalled,
                   steps>>

\* lines 61-66: config.yaml is updated, or the script exits when sed fails
RUpdateConfig(ok) ==
    /\ rpc = "config"
    /\ IF ok
       THEN cfgVersion' = new /\ rpc' = "changelog" /\ exit' = exit
       ELSE cfgVersion' = cfgVersion /\ Exit(1)
    /\ steps' = Append(steps, Step("config", ok))
    /\ UNCHANGED <<apiVars, args, opts, current, new, changelog, repo, remote, ghInstalled>>

\* lines 68-87: the changelog section is added unless --no-changelog. The
\* outcomes: "ok"; "prev", the awk of line 71 fails and set -e ends the
\* script; "awk", the awk of line 76 or its redirection fails, which is not
\* the last command of the && list, so the script goes on with the file as it
\* was; "mv", the mv fails and set -e ends the script
ChangelogOutcomes == {"ok", "prev", "awk", "mv"}

RChangelog(outcome) ==
    /\ rpc = "changelog"
    /\ IF opts.noChangelog
       THEN changelog' = changelog /\ rpc' = "add" /\ exit' = exit /\ steps' = steps
       ELSE /\ changelog' =
                IF outcome = "ok"
                THEN InsertSection(changelog, new, PrevVersion(changelog, current))
                ELSE changelog
            /\ IF outcome \in {"ok", "awk"}
               THEN rpc' = "add" /\ exit' = exit
               ELSE Exit(1)
            /\ steps' = Append(steps, Step("changelog", outcome = "ok"))
    /\ UNCHANGED <<apiVars, args, opts, cfgVersion, current, new, repo, remote,
                   ghInstalled>>

\* lines 90-91: the files are staged
RAdd(ok) ==
    /\ rpc = "add"
    /\ IF ok
       THEN /\ repo' = [repo EXCEPT !.staged =
                           {"config.yaml"} \cup
                           (IF opts.noChangelog THEN {} ELSE {"CHANGELOG.md"})]
            /\ rpc' = "commit" /\ exit' = exit
       ELSE repo' = repo /\ Exit(1)
    /\ steps' = Append(steps, Step("add", ok))
    /\ UNCHANGED <<apiVars, args, opts, cfgVersion, current, new, changelog, remote,
                   ghInstalled>>

\* line 92: git commit; set -e ends the script when it fails
RCommit(ok) ==
    /\ rpc = "commit"
    /\ IF ok
       THEN /\ repo' = [repo EXCEPT
                           !.commits = Append(@, [msg |-> new, files |-> repo.staged]),
                           !.staged = {}]
            /\ rpc' = "tag" /\ exit' = exit
       ELSE repo' = repo /\ Exit(1)
    /\ steps' = Append(steps, Step("commit", ok))
    /\ UNCHANGED <<apiVars, args, opts, cfgVersion, current, new, changelog, remote,
                   ghInstalled>>

\* line 93: git tag v<new>
RTag(ok) ==
    /\ rpc = "tag"
    /\ IF ok
       THEN repo' = [repo EXCEPT !.tags = @ \cup {new}] /\ rpc' = "push" /\ exit' = exit
       ELSE repo' = repo /\ Exit(1)
    /\ steps' = Append(steps, Step("tag", ok))
    /\ UNCHANGED <<apiVars, args, opts, cfgVersion, current, new, changelog, remote,
                   ghInstalled>>

\* RPushBranch that pushes the branch also with --no-push
RPushBranchAlways(ok) ==
    /\ rpc = "push"
    /\ IF ok
       THEN remote' = [remote EXCEPT !.branch = repo.commits] /\ rpc' = "pushtag" /\ exit' = exit
       ELSE remote' = remote /\ Exit(1)
    /\ steps' = Append(steps, Step("push", ok))
    /\ UNCHANGED <<apiVars, args, opts, cfgVersion, current, new, changelog, repo,
                   ghInstalled>>

\* lines 97-103: with --no-push the script ends here; else the branch is pushed
RPushBranch(ok) ==
    /\ rpc = "push"
    /\ IF opts.noPush THEN remote' = remote /\ Exit(0)
       ELSE IF ok
       THEN remote' = [remote EXCEPT !.branch = repo.commits] /\ rpc' = "pushtag" /\ exit' = exit
       ELSE remote' = remote /\ Exit(1)
    /\ steps' = IF opts.noPush THEN steps ELSE Append(steps, Step("push", ok))
    /\ UNCHANGED <<apiVars, args, opts, cfgVersion, current, new, changelog, repo,
                   ghInstalled>>

\* line 104: the tag is pushed
RPushTag(ok) ==
    /\ rpc = "pushtag"
    /\ IF ok
       THEN remote' = [remote EXCEPT !.tags = @ \cup {new}] /\ rpc' = "release" /\ exit' = exit
       ELSE remote' = remote /\ Exit(1)
    /\ steps' = Append(steps, Step("pushtag", ok))
    /\ UNCHANGED <<apiVars, args, opts, cfgVersion, current, new, changelog, repo,
                   ghInstalled>>

\* RRelease that creates the release also with --no-release
RReleaseAlways(gh, ok) ==
    /\ rpc = "release"
    /\ ghInstalled' = gh
    /\ remote' = IF gh /\ ok
                 THEN [remote EXCEPT !.releases = @ \cup {new}]
                 ELSE remote
    /\ steps' = IF gh THEN Append(steps, Step("release", ok)) ELSE steps
    /\ Exit(0)
    /\ UNCHANGED <<apiVars, args, opts, cfgVersion, current, new, changelog, repo>>

\* lines 106-122: the GitHub release is created when it is wanted and gh is
\* installed; a failing gh is reported and the script still ends with 0
RRelease(gh, ok) ==
    /\ rpc = "release"
    /\ ghInstalled' = gh
    /\ remote' = IF ~opts.noRelease /\ gh /\ ok
                 THEN [remote EXCEPT !.releases = @ \cup {new}]
                 ELSE remote
    /\ steps' = IF ~opts.noRelease /\ gh THEN Append(steps, Step("release", ok)) ELSE steps
    /\ Exit(0)
    /\ UNCHANGED <<apiVars, args, opts, cfgVersion, current, new, changelog, repo>>

NextRelease ==
    \/ RParse
    \/ RCompute
    \/ \E ok \in BOOLEAN : RUpdateConfig(ok)
    \/ \E outcome \in ChangelogOutcomes : RChangelog(outcome)
    \/ \E ok \in BOOLEAN : RAdd(ok)
    \/ \E ok \in BOOLEAN : RCommit(ok)
    \/ \E ok \in BOOLEAN : RTag(ok)
    \/ \E ok \in BOOLEAN : RPushBranch(ok)
    \/ \E ok \in BOOLEAN : RPushTag(ok)
    \/ \E gh \in BOOLEAN, ok \in BOOLEAN : RRelease(gh, ok)

\* one run of release.sh
SpecRelease == InitRelease /\ [][NextRelease]_vars

(* ============================== claims ================================= *)
ReqIds == 1..Len(reqs)

GorIds == 1..Len(gor)

\* the runs of job i that are executing
RunsInFlight(i) == {k \in GorIds : gor[k].index = i /\ gor[k].st = "running"}

\* the path a client writes to trigger job i, in either route form
TriggerPaths(i) ==
    {TriggerPrefix \o Numeral(i), TriggerPrefix \o Numeral(i) \o RunSuffix}

\* the request is a POST to a trigger route with an index of the registry
ValidTrigger(q) ==
    /\ q.method = "POST"
    /\ \E i \in 0..(Len(jobs) - 1) : q.path \in TriggerPaths(i)

\* C1: for every job index at most one run is in flight at any instant, and
\* the RunState flag tells whether there is one; overlapping triggers of one
\* index, from POST requests or from cron, start one run and leave the others
\* Busy, however they interleave.
C1_AtMostOneRunInFlight ==
    \A i \in JobIndexes :
        /\ Cardinality(RunsInFlight(i)) <= 1
        /\ alive => (running[i] = (RunsInFlight(i) # {}))

\* a cron firing and a POST overlap on one index: one runs, the other is Busy
C1_Witness ==
    \E k1, k2 \in GorIds :
        /\ gor[k1].index = gor[k2].index
        /\ gor[k1].st = "running" /\ gor[k2].st = "busy"
        /\ (gor[k1].by = 0) # (gor[k2].by = 0)

\* C2: a POST to /api/jobs/{index} or /api/jobs/{index}/run with an index of
\* the registry is never refused: the handler passes the checks, and the
\* response it writes is 202 with body {"status":"accepted"}, in both route
\* forms, whether or not a run of the job is in progress.
C2_ValidTriggerAccepted ==
    \A r \in ReqIds :
        ValidTrigger(reqs[r]) =>
            \/ reqs[r].pc = "spawned" /\ reqs[r].resp = NoResp
            \/ /\ reqs[r].pc = "done"
               /\ reqs[r].resp.status = 202
               /\ reqs[r].resp.text = "{\"status\":\"accepted\"}"

\* both route forms answered 202 for one job, the second while the first's
\* run was in progress (its own invocation ended Busy)
C2_Witness ==
    \E r1, r2 \in ReqIds, k1, k2 \in GorIds :
        /\ reqs[r1].path = TriggerPrefix \o <<"0">>
        /\ reqs[r2].path = TriggerPrefix \o <<"0">> \o RunSuffix
        /\ reqs[r1].resp.status = 202 /\ reqs[r2].resp.status = 202
        /\ gor[k1].by = r1 /\ gor[k1].st = "running"
        /\ gor[k2].by = r2 /\ gor[k2].st = "busy"

\* the text is an optional sign followed by one or more digits
IntegerText(t) ==
    LET body == IF t # <<>> /\ t[1] \in {"+", "-"} THEN Tail(t) ELSE t
    IN  body # <<>> /\ \A j \in 1..Len(body) : IsDigit(body[j])

\* the text is an integer below zero, or one at or above n
OutOfRangeText(t, n) ==
    \/ \E v \in 1..(MaxJobs + 4) : t = <<"-">> \o Numeral(v)
    \/ \E v \in n..(MaxJobs + 4) : t \in {Numeral(v), <<"+">> \o Numeral(v)}

\* the index part of a trigger path: what stands between "/api/jobs/" and the
\* end of the path or a closing "/run"
IndexParts(path) ==
    {t \in {SubSeq(path, Len(TriggerPrefix) + 1, e) : e \in Len(TriggerPrefix)..Len(path)} :
        path \in {TriggerPrefix \o t, TriggerPrefix \o t \o RunSuffix}}

BadIndex(path, n) ==
    \A t \in IndexParts(path) : ~IntegerText(t) \/ OutOfRangeText(t, n)

\* C3: a POST to the trigger route whose index part does not parse as an
\* integer, is negative, or is at or above the number of jobs is answered
\* 400 and starts nothing; the process stays alive through it.
C3_BadIndexRefused ==
    \A r \in ReqIds :
        (/\ reqs[r].method = "POST"
         /\ HasPrefix(reqs[r].path, TriggerPrefix)
         /\ BadIndex(reqs[r].path, Len(jobs))) =>
            /\ reqs[r].pc = "done"
            /\ reqs[r].resp.status = 400
            /\ \A k \in GorIds : gor[k].by # r
            /\ (\A k \in GorIds : gor[k].st # "panicked") => alive

\* a 400 for an index that is the number of jobs, and a later request served
C3_Witness ==
    \E r1, r2 \in ReqIds :
        /\ r1 < r2
        /\ reqs[r1].method = "POST"
        /\ reqs[r1].path = TriggerPrefix \o Numeral(Len(jobs))
        /\ reqs[r1].resp.status = 400
        /\ reqs[r2].resp.status = 202

\* C4: every request to /api/jobs with a method other than GET, and every
\* request under /api/jobs/ with a method other than POST, is answered 405,
\* whatever the index is.
C4_OtherMethods405 ==
    \A r \in ReqIds :
        (\/ reqs[r].path = PathApiJobs /\ reqs[r].method # "GET"
         \/ HasPrefix(reqs[r].path, TriggerPrefix) /\ reqs[r].method # "POST") =>
            reqs[r].pc = "done" /\ reqs[r].resp.status = 405

\* a GET on a trigger path whose index is no number
C4_Witness ==
    \E r \in ReqIds :
        /\ reqs[r].method = "GET"
        /\ reqs[r].path = TriggerPrefix \o <<"x">>
        /\ reqs[r].resp.status = 405

\* C5: GET /api/jobs returns one element per job, in registry order; element i
\* has index i, the job's name, the job's schedule or "(on demand / startup)"
\* when it has none, and type "rclone" for a sync job, "run" for a shell job.
C5_ListingMatchesRegistry ==
    \A r \in ReqIds :
        (reqs[r].method = "GET" /\ reqs[r].path = PathApiJobs) =>
            /\ reqs[r].resp.status = 200
            /\ Len(reqs[r].resp.list) = Len(jobs)
            /\ \A i \in 1..Len(jobs) :
                LET e == reqs[r].resp.list[i]
                    j == jobs[i]
                IN  /\ e["index"] = i - 1
                    /\ e["name"] = j.Name
                    /\ j.Schedule # "" => e["schedule"] = j.Schedule
                    /\ j.Schedule = "" => e["schedule"] = "(on demand / startup)"
                    /\ j.Command # "" => e["type"] = "rclone"
                    /\ j.Command = "" => e["type"] = "run"

\* the listing of the registry <<Nightly, Cleanup>>
C5_Witness ==
    \E r \in ReqIds :
        /\ jobs = <<JobNightly, JobCleanup>>
        /\ reqs[r].method = "GET" /\ reqs[r].path = PathApiJobs
        /\ Len(reqs[r].resp.list) = 2
        /\ reqs[r].resp.list[1]["type"] = "rclone"
        /\ reqs[r].resp.list[1]["schedule"] = "0 2 * * *"
        /\ reqs[r].resp.list[2]["type"] = "run"
        /\ reqs[r].resp.list[2]["schedule"] = "(on demand / startup)"

\* C6: every element of the listing holds exactly one of the fields command
\* and run, the one that matches its type.
C6_OneActionField ==
    \A r \in ReqIds :
        \A i \in 1..Len(reqs[r].resp.list) :
            LET e == reqs[r].resp.list[i]
            IN  /\ ("command" \in DOMAIN e) # ("run" \in DOMAIN e)
                /\ e["type"] = "rclone" => "command" \in DOMAIN e
                /\ e["type"] = "run" => "run" \in DOMAIN e

\* a listing with an element of each type
C6_Witness ==
    \E r \in ReqIds :
        \E i1, i2 \in 1..Len(reqs[r].resp.list) :
            /\ reqs[r].resp.list[i1]["type"] = "rclone"
            /\ reqs[r].resp.list[i2]["type"] = "run"

\* one path segment: a text without "/", not empty
Segment(t) == t # <<>> /\ \A j \in 1..Len(t) : t[j] # "/"

\* the routes the interface defines: /, /jobs, /api/jobs, /api/jobs/{index}
\* and /api/jobs/{index}/run
DefinedRoute(path) ==
    \/ path \in {PathRoot, PathJobs, PathApiJobs}
    \/ \E t \in IndexParts(path) : Segment(t)

\* C7 as claimed: GET / and GET /jobs are answered 200 with the dashboard, and
\* every request whose path is not a defined route is answered 404.
C7_UnknownPaths404 ==
    \A r \in ReqIds :
        /\ (reqs[r].method = "GET" /\ reqs[r].path \in {PathRoot, PathJobs}) =>
               reqs[r].resp.status = 200 /\ reqs[r].resp.text = "jobsPageHTML"
        /\ ~DefinedRoute(reqs[r].path) => reqs[r].resp.status = 404

\* C7 amended: GET / and GET /jobs are answered 200 with the dashboard; a path
\* that is none of /, /jobs, /api/jobs and does not begin with /api/jobs/ is
\* answered 404; a path that begins with /api/jobs/ is never answered 404:
\* the trigger handler answers it 405, 400 or 202.
C7_UnknownPathsOutsideTrigger404 ==
    \A r \in ReqIds :
        /\ (reqs[r].method = "GET" /\ reqs[r].path \in {PathRoot, PathJobs}) =>
               reqs[r].resp.status = 200 /\ reqs[r].resp.text = "jobsPageHTML"
        /\ (/\ reqs[r].path \notin {PathRoot, PathJobs, PathApiJobs}
            /\ ~HasPrefix(reqs[r].path, TriggerPrefix)) =>
               reqs[r].resp.status = 404
        /\ (HasPrefix(reqs[r].path, TriggerPrefix) /\ reqs[r].pc = "done") =>
               reqs[r].resp.status \in {405, 400, 202}

\* an unknown path outside /api/jobs/ answered 404
C7_Witness ==
    \E r \in ReqIds :
        reqs[r].path = PathOther /\ reqs[r].resp.status = 404

\* C8: the trigger handler does not wait for the job: once it has started the
\* goroutine, writing the 202 is possible whatever the run does, also when
\* the run never ends.
C8_TriggerDoesNotWait ==
    \A r \in ReqIds :
        (alive /\ reqs[r].pc = "spawned") => ENABLED WriteAccepted(r)

\* a trigger answered 202 and a later request answered, both while the run
\* the trigger started is still executing
C8_Witness ==
    \E r1, r2 \in ReqIds, k \in GorIds :
        /\ r1 < r2
        /\ gor[k].by = r1 /\ gor[k].st = "running"
        /\ reqs[r1].resp.status = 202
        /\ reqs[r2].pc = "done"

\* C9 as claimed: when a job started through the trigger route has failed
\* (failed to start, exited non-zero, or its runnable faulted), the process
\* still lives, so the Control API answers and other jobs can be triggered.
C9_JobFailureIsolated ==
    \A k \in GorIds :
        (gor[k].by # 0 /\ gor[k].st \in {"failed", "panicked"}) => alive

\* the version the usage text promises for a bump argument, from the numbers
\* a.b.c of the current version
Promised(arg, a, b, c) ==
    IF arg = TokPatch THEN VersionText(a, b, c + 1)
    ELSE IF arg = TokMinor THEN VersionText(a, b + 1, 0)
    ELSE IF arg = TokMajor THEN VersionText(a + 1, 0, 0)
    ELSE arg

\* the script has computed $new
Computed == rpc \notin {"idle", "parse", "read"} /\ ~opts.usage /\ current # <<>>

\* the script has got past the update of config.yaml
ConfigUpdated ==
    \/ rpc \in {"changelog", "add", "commit", "tag", "push", "pushtag", "release"}
    \/ rpc = "exited" /\ exit = 0

\* C10: from the current version a.b.c, patch gives a.b.(c+1), minor gives
\* a.(b+1).0, major gives (a+1).0.0 and an explicit X.Y.Z gives X.Y.Z; that is
\* $new, and the version line of config.yaml once the script has updated it.
C10_VersionBump ==
    \A i \in 1..Len(args) :
        (/\ Computed
         /\ args[i] \in {TokPatch, TokMinor, TokMajor} \cup ExplicitVersions) =>
            \A a \in VerNums :
                HasPrefix(current, Numeral(a) \o Dot) =>
                    \A b \in VerNums :
                        HasPrefix(current, Numeral(a) \o Dot \o Numeral(b) \o Dot) =>
                            \A c \in VerNums :
                                current = VersionText(a, b, c) =>
                                    /\ new = Promised(args[i], a, b, c)
                                    /\ ConfigUpdated =>
                                           cfgVersion = Promised(args[i], a, b, c)

\* a minor bump of 1.9.10 has set config.yaml to 1.10.0
C10_Witness ==
    /\ args # <<>> /\ args[1] = TokMinor
    /\ current = VersionText(1, 9, 10)
    /\ cfgVersion = VersionText(1, 10, 0)
    /\ rpc = "exited" /\ exit = 0

\* the script was called with the flag
Given(flag) == \E i \in 1..Len(args) : args[i] = flag

\* nothing has reached the remote
RemoteUntouched == remote = [branch |-> <<>>, tags |-> {}, releases |-> {}]

\* the script has ended with status 0
Succeeded == rpc = "exited" /\ exit = 0

\* C11: with --no-push the script never pushes the branch, never pushes the
\* tag and never creates a release, whatever other flags are given; when it
\* ends with status 0 it has committed and tagged v<new>.
C11_NoPushCommitsAndTagsOnly ==
    Given(TokNoPush) =>
        /\ RemoteUntouched
        /\ \A i \in 1..Len(steps) : steps[i].step \notin {"push", "pushtag", "release"}
        /\ Succeeded => Len(repo.commits) = 1 /\ repo.tags = {new}

\* a run with --no-push and without --no-release that has committed and
\* tagged and ended with status 0
C11_Witness ==
    /\ Given(TokNoPush) /\ ~Given(TokNoRelease)
    /\ Succeeded
    /\ Len(repo.commits) = 1 /\ repo.tags = {new}

\* C12: with --no-release and without --no-push the script never creates a
\* release, and when it ends with status 0 it has pushed the branch and the
\* tag; without --no-release a release is attempted only when gh is
\* installed.
C12_NoReleasePushesOnly ==
    /\ (Given(TokNoRelease) /\ ~Given(TokNoPush)) =>
        /\ remote.releases = {}
        /\ \A i \in 1..Len(steps) : steps[i].step # "release"
        /\ Succeeded => remote.branch = repo.commits /\ remote.tags = {new}
    /\ (\E i \in 1..Len(steps) : steps[i].step = "release") =>
        ghInstalled /\ ~Given(TokNoRelease)

\* a run with --no-release where gh is installed: branch and tag are pushed,
\* there is no release
C12_Witness ==
    /\ Given(TokNoRelease) /\ ~Given(TokNoPush)
    /\ Succeeded /\ ghInstalled
    /\ remote.branch = repo.commits /\ remote.tags = {new}
    /\ remote.releases = {}

\* the invocations of the executor entry point that request r started
StartedBy(r) == {k \in GorIds : gor[k].by = r}

\* C13: every trigger request answered 202 has started exactly one invocation,
\* that of the job whose index stands in its path, and none of another job; a
\* request answered 400 or 405 has started none.
C13_AcceptedStartsExactlyOne ==
    \A r \in ReqIds :
        /\ (reqs[r].pc = "done" /\ reqs[r].resp.status = 202) =>
            /\ Cardinality(StartedBy(r)) = 1
            /\ \A k \in StartedBy(r) : reqs[r].path \in TriggerPaths(gor[k].index)
        /\ (reqs[r].pc = "done" /\ reqs[r].resp.status \in {400, 405}) =>
            StartedBy(r) = {}

\* a POST for job 1 answered 202 with its one invocation, and a request
\* answered 400
C13_Witness ==
    \E r1, r2 \in ReqIds :
        /\ reqs[r1].resp.status = 202
        /\ reqs[r1].path \in TriggerPaths(1)
        /\ \E k \in GorIds : gor[k].by = r1 /\ gor[k].index = 1
        /\ reqs[r2].resp.status = 400

\* the steps of the script in the order of the source
StepOrder == <<"config", "changelog", "add", "commit", "tag", "push", "pushtag", "release">>

Rank(name) == CHOOSE n \in 1..Len(StepOrder) : StepOrder[n] = name

\* the step has been run and succeeded
Done(name) == \E i \in 1..Len(steps) : steps[i].step = name /\ steps[i].ok

\* C14 as claimed: the steps run in the fixed order update config.yaml, update
\* CHANGELOG.md, commit, tag, push branch, push tag, create release; the script
\* stops at the first failing step, so a failed step is the last one run; the
\* tag exists only after a successful commit, the tag is pushed only after a
\* successful branch push, a release exists only after both pushes succeeded.
C14_FixedOrderStopsAtFirstFailure ==
    /\ \A i, j \in 1..Len(steps) :
        i < j => Rank(steps[i].step) < Rank(steps[j].step)
    /\ \A i \in 1..Len(steps) :
        ~steps[i].ok => i = Len(steps) /\ rpc = "exited"
    /\ repo.tags # {} => Done("commit")
    /\ remote.tags # {} => Done("push")
    /\ remote.releases # {} => Done("push") /\ Done("pushtag")

\* the script has got past the changelog section of lines 68-87
PastChangelog ==
    \/ rpc \in {"add", "commit", "tag", "push", "pushtag", "release"}
    \/ rpc = "exited" /\ \E i \in 1..Len(steps) : Rank(steps[i].step) > Rank("changelog")

\* cl is c0 with one section "## v", its compare link from the version of the
\* header at p, and blank lines, put in right before line p of c0
SectionInsertedAt(cl, c0, p, v) ==
    /\ Len(cl) = Len(c0) + 4
    /\ \A q \in 1..(p - 1) : cl[q] = c0[q]
    /\ cl[p] = Header(v)
    /\ cl[p + 1].kind = "blank"
    /\ cl[p + 2] = Line("link", c0[p].a, v)
    /\ cl[p + 3].kind = "blank"
    /\ \A q \in p..Len(c0) : cl[q + 4] = c0[q]

\* C15 as claimed: unless --no-changelog is given, once the script is past
\* its changelog section CHANGELOG.md is the file of the checkout with exactly
\* one new section "## <new>" and its compare link right before the first
\* "## X.Y.Z" header, every other line unchanged and in order; with
\* --no-changelog CHANGELOG.md is never modified, staged or committed.
C15_ChangelogSection ==
    /\ (~Given(TokNoChangelog) /\ ~opts.usage /\ PastChangelog) =>
        \E p \in 1..Len(repo.base.changelog) :
            /\ VersionHeader(repo.base.changelog[p])
            /\ \A q \in 1..(p - 1) : ~VersionHeader(repo.base.changelog[q])
            /\ SectionInsertedAt(changelog, repo.base.changelog, p, new)
    /\ Given(TokNoChangelog) =>
        /\ changelog = repo.base.changelog
        /\ "CHANGELOG.md" \notin repo.staged
        /\ \A i \in 1..Len(repo.commits) : "CHANGELOG.md" \notin repo.commits[i].files

\* the indexes of a listing
ListedIndexes(list) == {list[i]["index"] : i \in 1..Len(list)}

\* C16: the indexes GET /api/jobs shows are exactly the indexes POST
\* /api/jobs/{index} accepts: in one process, a POST for index i is answered
\* 202 when i is listed and is refused when it is not, and the listing shows
\* exactly the indexes the trigger check lets through.
C16_ListedIffTriggerable ==
    \A r \in ReqIds :
        (reqs[r].method = "GET" /\ reqs[r].path = PathApiJobs /\ reqs[r].pc = "done") =>
            /\ ListedIndexes(reqs[r].resp.list) = JobIndexes
            /\ \A q \in ReqIds, i \in 0..(MaxJobs + 4) :
                (/\ reqs[q].method = "POST"
                 /\ reqs[q].path \in TriggerPaths(i)
                 /\ reqs[q].pc = "done") =>
                    ((reqs[q].resp.status = 202) <=> (i \in ListedIndexes(reqs[r].resp.list)))

\* one process lists two jobs and accepts a POST for the last listed index
C16_Witness ==
    \E r, q \in ReqIds :
        /\ reqs[r].method = "GET" /\ reqs[r].path = PathApiJobs
        /\ ListedIndexes(reqs[r].resp.list) = {0, 1}
        /\ reqs[q].method = "POST" /\ reqs[q].path \in TriggerPaths(1)
        /\ reqs[q].resp.status = 202

\* the arguments the usage text names
Recognised(arg) ==
    \/ arg \in {TokPatch, TokMinor, TokMajor, TokNoPush, TokNoChangelog, TokNoRelease}
    \/ LET v == SplitVersion(arg)
       IN  DigitsOnly(v.major) /\ DigitsOnly(v.minor) /\ DigitsOnly(v.patch)

\* the script was called with an argument it does not know, or with no bump
BadCall ==
    \/ \E i \in 1..Len(args) : ~Recognised(args[i])
    \/ \A i \in 1..Len(args) : args[i] \in {TokNoPush, TokNoChangelog, TokNoRelease}

\* C17: called with an unrecognised argument or with no bump argument, the
\* script exits with status 1 from its argument parsing and has no effect:
\* config.yaml and CHANGELOG.md are as checked out, nothing is staged,
\* committed or tagged, the remote is untouched.
C17_UsageBeforeAnyEffect ==
    BadCall =>
        /\ rpc \in {"parse", "exited"}
        /\ rpc = "exited" => exit = 1
        /\ steps = <<>>
        /\ cfgVersion = repo.base.config
        /\ changelog = repo.base.changelog
        /\ repo.staged = {} /\ repo.commits = <<>> /\ repo.tags = {}
        /\ RemoteUntouched

\* a call with flags and no bump has ended with status 1
C17_Witness ==
    /\ args = <<TokNoPush, TokNoRelease>>
    /\ rpc = "exited" /\ exit = 1
    /\ opts.usage

====
